---- MODULE Spec2Model ----
(***************************************************************************)
(* A model of app.py: the /chat handler (math guardrail first, hosted      *)
(* model otherwise), /reset, the retry loop of call_hf_inference and the   *)
(* bounded per-session history.                                            *)
(*                                                                         *)
(* Text is a sequence of characters, each character a one-character        *)
(* string; a character outside ASCII is written by its code point, e.g.    *)
(* "U+00D7" for the multiplication sign, and a fixed phrase of the program *)
(* or of the upstream service (a prompt, an error message) is written as   *)
(* one element.  Numbers are exact rationals                               *)
(* [n, d, f]: numerator, positive denominator, and f = TRUE for a Python   *)
(* float.  The rational agrees with the IEEE double of the code whenever   *)
(* every intermediate value is exactly representable, which is the case    *)
(* for the inputs enumerated below.  An int of more than 4300 decimal       *)
(* digits is held as "big", without its digits: CPython refuses to convert *)
(* such an int to text unless its limit (sys.set_int_max_str_digits) is    *)
(* lifted.                                                                 *)
(***************************************************************************)
EXTENDS Integers, Sequences, FiniteSets, TLC

VARIABLES
    HF_TOKEN,      \* app.py:11   TRUE iff the HF_API_TOKEN environment variable is set
    int_max_str_digits, \* the interpreter's limit on int -> str: 4300, or 0 for none
    stream,        \* the streaming request in progress: events consumed, frames written,
                   \* text accumulated
    model_lock,    \* app.py:65   the worker that holds model_lock, or NoWorker
    worker,        \* where each concurrent worker is in ensure_model_loaded / call_hf_inference
    loaded_by,     \* history: the workers that executed the initialization (lines 82-84)
    given,         \* history: the expression tree whose text was handed to safe_eval_expr,
                   \* or the phrases of the sentence handed to extract_math_expression
    model_ready,   \* app.py:66
    session,       \* session["messages"] as stored by the session interface
    pc,            \* position of the worker inside chat()
    body,          \* chat: request.json
    user_text,     \* chat: user_text
    expr,          \* chat: expr
    result,        \* chat: result, or the exception safe_eval_expr raised
    msgs,          \* chat: msgs (local list of the model path)
    lines,         \* build_prompt: lines
    prompt_text,   \* chat: prompt_text
    attempt,       \* call_hf_inference: loop variable
    hf_return,     \* what call_hf_inference returned
    response,      \* the HTTP response of the last request
    sent,          \* history variable: upstream requests posted for this request
    sleeps,        \* history variable: time.sleep calls of this request, in order
    upstream,      \* history variable: the upstream exchanges of this request, in order
    calls,         \* history variable: functions entered by this request, in order
    session0,      \* history variable: session["messages"] when the request arrived
    committed,     \* history variable: every turn ever stored, in order
    nreq           \* history variable: number of /chat requests received

vars == <<HF_TOKEN, int_max_str_digits, stream, model_lock, worker, loaded_by, given, model_ready, session, pc, body, user_text, expr, result, msgs, lines,
          prompt_text, attempt, hf_return, response, sent, sleeps, upstream, calls, session0,
          committed, nreq>>

-----------------------------------------------------------------------------
(* Characters and strings *)

Digits == <<"0", "1", "2", "3", "4", "5", "6", "7", "8", "9">>

DigitSet == {Digits[i] : i \in 1..Len(Digits)}

UpperCase == <<"A", "B", "C", "D", "E", "F", "G", "H", "I", "J", "K", "L", "M",
               "N", "O", "P", "Q", "R", "S", "T", "U", "V", "W", "X", "Y", "Z">>

LowerCase == <<"a", "b", "c", "d", "e", "f", "g", "h", "i", "j", "k", "l", "m",
               "n", "o", "p", "q", "r", "s", "t", "u", "v", "w", "x", "y", "z">>

\* str.lower() on one character
LowerChar(c) ==
    IF \E i \in 1..Len(UpperCase) : UpperCase[i] = c
    THEN LowerCase[CHOOSE i \in 1..Len(UpperCase) : UpperCase[i] = c]
    ELSE c

Lower(s) == [i \in 1..Len(s) |-> LowerChar(s[i])]

WhiteSpace == {" ", "\t", "\n"}

RECURSIVE LStrip(_)
LStrip(s) ==
    IF s /= <<>> /\ Head(s) \in WhiteSpace THEN LStrip(Tail(s)) ELSE s

RECURSIVE RStrip(_)
RStrip(s) ==
    IF s /= <<>> /\ s[Len(s)] \in WhiteSpace THEN RStrip(SubSeq(s, 1, Len(s) - 1)) ELSE s

\* str.strip()
Strip(s) == RStrip(LStrip(s))

StartsWith(s, w) == Len(s) >= Len(w) /\ SubSeq(s, 1, Len(w)) = w

\* str.replace(w, r): left to right, non-overlapping
RECURSIVE Replace(_, _, _)
Replace(s, w, r) ==
    IF s = <<>> THEN <<>>
    ELSE IF StartsWith(s, w)
         THEN r \o Replace(SubSeq(s, Len(w) + 1, Len(s)), w, r)
         ELSE <<Head(s)>> \o Replace(Tail(s), w, r)

Contains(s, c) == \E i \in 1..Len(s) : s[i] = c

IndexOf(s, c) == CHOOSE i \in 1..Len(s) : s[i] = c /\ \A j \in 1..(i - 1) : s[j] /= c

\* str(n) for a natural number
RECURSIVE NatStr(_)
NatStr(n) == IF n < 10 THEN <<Digits[n + 1]>> ELSE NatStr(n \div 10) \o <<Digits[(n % 10) + 1]>>

\* str(n) for an int
IntStr(n) == IF n < 0 THEN <<"-">> \o NatStr(-n) ELSE NatStr(n)

-----------------------------------------------------------------------------
(* Math guardrail: normalisation and extraction *)

_MATH_CHARS == DigitSet \cup {"+", "-", "*", "/", "^", "(", ")", ".", " "}

\* the character class of _MATH_RE: [0-9+\-*/^().\s]
_MATH_RE_CLASS == DigitSet \cup {"+", "-", "*", "/", "^", "(", ")", "."} \cup WhiteSpace

\* _MATH_RE.fullmatch(s)
_MATH_RE_fullmatch(s) == s /= <<>> /\ \A i \in 1..Len(s) : s[i] \in _MATH_RE_CLASS

_WORD_TO_OP == <<
    <<<<"d", "i", "v", "i", "d", "e", "d", " ", "b", "y">>, "/">>,
    <<<<"o", "v", "e", "r">>, "/">>,
    <<<<"t", "i", "m", "e", "s">>, "*">>,
    <<<<"m", "u", "l", "t", "i", "p", "l", "i", "e", "d", " ", "b", "y">>, "*">>,
    <<<<"x">>, "*">>,
    <<<<"U+00D7">>, "*">>,
    <<<<"U+00B7">>, "*">>,
    <<<<"p", "l", "u", "s">>, "+">>,
    <<<<"m", "i", "n", "u", "s">>, "-">>,
    <<<<"U+2013">>, "-">>,
    <<<<"U+2014">>, "-">>,
    <<<<"U+00F7">>, "/">> >>

\* the loop "for word, op in _WORD_TO_OP: s = s.replace(word, op)", from entry k on
RECURSIVE ReplaceWords(_, _)
ReplaceWords(s, k) ==
    IF k > Len(_WORD_TO_OP) THEN s
    ELSE ReplaceWords(Replace(s, _WORD_TO_OP[k][1], <<_WORD_TO_OP[k][2]>>), k + 1)

\* re.sub(r"\s+", " ", s)
RECURSIVE CollapseSpaces(_)
CollapseSpaces(s) ==
    IF s = <<>> THEN <<>>
    ELSE IF Head(s) \in WhiteSpace
         THEN <<" ">> \o CollapseSpaces(LStrip(s))
         ELSE <<Head(s)>> \o CollapseSpaces(Tail(s))

IsMathChar(c) == c \in _MATH_CHARS

normalize_sentence_to_math(text) ==
    LET s1 == Lower(text)
        s2 == IF Contains(s1, "=") THEN SubSeq(s1, 1, IndexOf(s1, "=") - 1) ELSE s1
        s3 == ReplaceWords(s2, 1)
        s4 == SelectSeq(s3, IsMathChar)
    IN  Strip(CollapseSpaces(s4))

\* re.findall(r"[0-9+\-*/^(). ]+", text): the maximal runs of math characters;
\* cur is the run being read
RECURSIVE FindRuns(_, _)
FindRuns(s, cur) ==
    IF s = <<>> THEN (IF cur = <<>> THEN <<>> ELSE <<cur>>)
    ELSE IF Head(s) \in _MATH_CHARS
         THEN FindRuns(Tail(s), Append(cur, Head(s)))
         ELSE (IF cur = <<>> THEN <<>> ELSE <<cur>>) \o FindRuns(Tail(s), <<>>)

IsNotSpace(c) == c /= " "

OperatorChars == {"+", "-", "*", "/", "^"}

\* the loop of longest_math_substring that fills "cleaned", from candidate k on
RECURSIVE Cleaned(_, _)
Cleaned(candidates, k) ==
    IF k > Len(candidates) THEN <<>>
    ELSE LET c2 == SelectSeq(candidates[k], IsNotSpace)
         IN  IF c2 /= <<>> /\ _MATH_RE_fullmatch(c2)
                /\ \E i \in 1..Len(c2) : c2[i] \in OperatorChars
             THEN <<c2>> \o Cleaned(candidates, k + 1)
             ELSE Cleaned(candidates, k + 1)

\* list.sort(key=len) is stable: x goes after every element that is not longer
RECURSIVE InsertByLen(_, _)
InsertByLen(sorted, x) ==
    IF sorted = <<>> THEN <<x>>
    ELSE IF Len(Head(sorted)) <= Len(x)
         THEN <<Head(sorted)>> \o InsertByLen(Tail(sorted), x)
         ELSE <<x>> \o sorted

RECURSIVE SortByLen(_)
SortByLen(l) ==
    IF l = <<>> THEN <<>>
    ELSE InsertByLen(SortByLen(SubSeq(l, 1, Len(l) - 1)), l[Len(l)])

longest_math_substring(text) ==
    LET cleaned == Cleaned(FindRuns(text, <<>>), 1)
        sorted  == SortByLen(cleaned)
    IN  IF cleaned = <<>> THEN <<>> ELSE sorted[Len(sorted)]

extract_math_expression(text) == longest_math_substring(normalize_sentence_to_math(text))

-----------------------------------------------------------------------------
(* Math guardrail: ast.parse(expr, mode="eval") on the guardrail's alphabet *)

\* a value this model does not hold: evaluating it is an error in TLC
OutsideModel(what) == CHOOSE v \in {} : v = what

\* a token: k = "num" with value n/d (f: written with a point), or k = "op" with text s
NumTok(n, d, f) == [k |-> "num", s |-> "", n |-> n, d |-> d, f |-> f]

OpTok(s) == [k |-> "op", s |-> s, n |-> 0, d |-> 1, f |-> FALSE]

\* the length of the run of digits at the front of s
RECURSIVE DigitRun(_)
DigitRun(s) == IF s /= <<>> /\ Head(s) \in DigitSet THEN 1 + DigitRun(Tail(s)) ELSE 0

DigitVal(c) == (CHOOSE i \in 1..Len(Digits) : Digits[i] = c) - 1

\* int(s) for a string of digits
RECURSIVE DigitsVal(_)
DigitsVal(s) == IF s = <<>> THEN 0 ELSE 10 * DigitsVal(SubSeq(s, 1, Len(s) - 1)) + DigitVal(s[Len(s)])

RECURSIVE Pow10(_)
Pow10(k) == IF k = 0 THEN 1 ELSE 10 * Pow10(k - 1)

\* The tokenizer: a sequence of tokens, or <<OpTok("error")>> for a lexical error
\* (a lone ".", a decimal integer literal with a leading zero, a character
\* that starts no token).  Spaces and tabs between tokens are skipped; a line
\* break, which ends the logical line, is outside this model.
RECURSIVE Tokenize(_)
Tokenize(s) ==
    IF s = <<>> THEN <<>>
    ELSE LET c    == Head(s)
             ip   == DigitRun(s)
             rest == SubSeq(s, ip + 1, Len(s))
             fp   == IF rest /= <<>> /\ Head(rest) = "." THEN DigitRun(Tail(rest)) ELSE 0
             isfl == rest /= <<>> /\ Head(rest) = "." /\ (ip > 0 \/ fp > 0)
             ival == DigitsVal(SubSeq(s, 1, ip))
         IN  IF isfl
             THEN <<NumTok(ival * Pow10(fp) + DigitsVal(SubSeq(rest, 2, fp + 1)), Pow10(fp), TRUE)>>
                  \o Tokenize(SubSeq(rest, fp + 2, Len(rest)))
             ELSE IF ip > 0
             THEN IF ip > 1 /\ c = "0" /\ ival /= 0
                  THEN <<OpTok("error")>>
                  ELSE <<NumTok(ival, 1, FALSE)>> \o Tokenize(rest)
             ELSE IF StartsWith(s, <<".", ".", ".">>) THEN <<OpTok("...")>> \o Tokenize(SubSeq(s, 4, Len(s)))
             ELSE IF c \in {" ", "\t"} THEN Tokenize(Tail(s))
             ELSE IF c = "\n" THEN OutsideModel("a line break in an expression")
             ELSE IF StartsWith(s, <<"*", "*">>) THEN <<OpTok("**")>> \o Tokenize(SubSeq(s, 3, Len(s)))
             ELSE IF StartsWith(s, <<"/", "/">>) THEN <<OpTok("//")>> \o Tokenize(SubSeq(s, 3, Len(s)))
             ELSE IF c \in {"+", "-", "*", "/", "^", "(", ")"} THEN <<OpTok(c)>> \o Tokenize(Tail(s))
             ELSE <<OpTok("error")>>

\* AST nodes
Constant(n, d, f) == [t |-> "Constant", n |-> n, d |-> d, f |-> f]

UnaryOp(op, operand) == [t |-> "UnaryOp", op |-> op, operand |-> operand]

BinOp(left, op, right) == [t |-> "BinOp", op |-> op, left |-> left, right |-> right]

OtherNode(kind) == [t |-> kind]

\* the ast operator class of an operator token
AstOp(s, unary) ==
    CASE s = "+"  -> IF unary THEN "UAdd" ELSE "Add"
      [] s = "-"  -> IF unary THEN "USub" ELSE "Sub"
      [] s = "*"  -> "Mult"
      [] s = "/"  -> "Div"
      [] s = "//" -> "FloorDiv"
      [] s = "**" -> "Pow"
      [] s = "^"  -> "BitXor"

\* a parse result: the node and the position of the next token
Parsed(node, pos) == [ok |-> TRUE, node |-> node, pos |-> pos]

SyntaxError == [ok |-> FALSE, node |-> OtherNode("none"), pos |-> 0]

IsOp(toks, i, ops) == i <= Len(toks) /\ toks[i].k = "op" /\ toks[i].s \in ops

RECURSIVE ParseXor(_, _), ParseXorRest(_, _), XorStep(_, _, _)
RECURSIVE ParseSum(_, _), ParseSumRest(_, _), SumStep(_, _, _)
RECURSIVE ParseTerm(_, _), ParseTermRest(_, _), TermStep(_, _, _)
RECURSIVE ParseFactor(_, _), ParsePower(_, _), PowerRest(_, _)
RECURSIVE ParsePrimary(_, _), ParseTrailers(_, _), TrailersNext(_, _), AfterTrailer(_, _)
RECURSIVE ParseAtom(_, _)

\* a parenthesis that need not be closed
CloseParen_Optional(toks, r) ==
    IF r.ok THEN Parsed(r.node, IF IsOp(toks, r.pos, {")"}) THEN r.pos + 1 ELSE r.pos)
    ELSE SyntaxError

\* the node r when the token after it closes the parenthesis
CloseParen(toks, r) ==
    IF r.ok /\ IsOp(toks, r.pos, {")"}) THEN Parsed(r.node, r.pos + 1) ELSE SyntaxError

\* atom: NUMBER | '...' | '(' expression ')' | '(' ')'; the constant Ellipsis
\* is no int or float (line 120)
ParseAtom(toks, i) ==
    IF i > Len(toks) THEN SyntaxError
    ELSE IF toks[i].k = "num" THEN Parsed(Constant(toks[i].n, toks[i].d, toks[i].f), i + 1)
    ELSE IF IsOp(toks, i, {"..."}) THEN Parsed(OtherNode("Ellipsis"), i + 1)
    ELSE IF IsOp(toks, i, {"("})
    THEN IF IsOp(toks, i + 1, {")"}) THEN Parsed(OtherNode("Tuple"), i + 2)
         ELSE CloseParen(toks, ParseXor(toks, i + 1))
    ELSE SyntaxError

\* the position after the call trailer that opens at token i, 0 if it is malformed:
\* '(' ')' | '(' ['*' | '**'] expression ')'
AfterTrailer(toks, i) ==
    IF IsOp(toks, i + 1, {")"}) THEN i + 2
    ELSE CloseParen(toks, ParseXor(toks, IF IsOp(toks, i + 1, {"*", "**"}) THEN i + 2 ELSE i + 1)).pos

TrailersNext(toks, p) ==
    IF p = 0 THEN SyntaxError ELSE ParseTrailers(toks, Parsed(OtherNode("Call"), p))

\* the call trailers that follow the atom r
ParseTrailers(toks, r) ==
    IF ~r.ok \/ ~IsOp(toks, r.pos, {"("}) THEN r
    ELSE TrailersNext(toks, AfterTrailer(toks, r.pos))

\* primary: atom trailer*
ParsePrimary(toks, i) == ParseTrailers(toks, ParseAtom(toks, i))

MkBinOp(l, op, r) == IF r.ok THEN Parsed(BinOp(l.node, op, r.node), r.pos) ELSE SyntaxError

MkUnaryOp(op, f) == IF f.ok THEN Parsed(UnaryOp(op, f.node), f.pos) ELSE SyntaxError

PowerRest(toks, p) ==
    IF p.ok /\ IsOp(toks, p.pos, {"**"})
    THEN MkBinOp(p, "Pow", ParseFactor(toks, p.pos + 1))
    ELSE p

\* power: primary ['**' factor]
ParsePower(toks, i) == PowerRest(toks, ParsePrimary(toks, i))

\* factor: ('+' | '-') factor | power
ParseFactor(toks, i) ==
    IF IsOp(toks, i, {"+", "-"})
    THEN MkUnaryOp(AstOp(toks[i].s, TRUE), ParseFactor(toks, i + 1))
    ELSE ParsePower(toks, i)

TermStep(toks, l, r) ==
    IF r.ok THEN ParseTermRest(toks, MkBinOp(l, AstOp(toks[l.pos].s, FALSE), r)) ELSE SyntaxError

ParseTermRest(toks, l) ==
    IF ~l.ok \/ ~IsOp(toks, l.pos, {"*", "/", "//"}) THEN l
    ELSE TermStep(toks, l, ParseFactor(toks, l.pos + 1))

\* term: factor (('*' | '/' | '//') factor)*, left-associative
ParseTerm(toks, i) == ParseTermRest(toks, ParseFactor(toks, i))

SumStep(toks, l, r) ==
    IF r.ok THEN ParseSumRest(toks, MkBinOp(l, AstOp(toks[l.pos].s, FALSE), r)) ELSE SyntaxError

ParseSumRest(toks, l) ==
    IF ~l.ok \/ ~IsOp(toks, l.pos, {"+", "-"}) THEN l
    ELSE SumStep(toks, l, ParseTerm(toks, l.pos + 1))

\* sum: term (('+' | '-') term)*, left-associative
ParseSum(toks, i) == ParseSumRest(toks, ParseTerm(toks, i))

XorStep(toks, l, r) ==
    IF r.ok THEN ParseXorRest(toks, MkBinOp(l, "BitXor", r)) ELSE SyntaxError

ParseXorRest(toks, l) ==
    IF ~l.ok \/ ~IsOp(toks, l.pos, {"^"}) THEN l
    ELSE XorStep(toks, l, ParseSum(toks, l.pos + 1))

\* bitwise_xor: sum ('^' sum)*, left-associative
ParseXor(toks, i) == ParseXorRest(toks, ParseSum(toks, i))

\* ast.parse(expr, mode="eval"): the body of the Expression node, or SyntaxError
WholeInput(toks, r) == IF r.ok /\ r.pos = Len(toks) + 1 THEN r ELSE SyntaxError

ParseTokens(toks) == WholeInput(toks, ParseXor(toks, 1))

\* a first line that starts with a space or a tab is an IndentationError,
\* which is a SyntaxError
ast_parse(s) ==
    IF s /= <<>> /\ Head(s) \in {" ", "\t"} THEN SyntaxError ELSE ParseTokens(Tokenize(s))


-----------------------------------------------------------------------------
(* Math guardrail: _eval_node and safe_eval_expr *)

Abs(x) == IF x < 0 THEN -x ELSE x

RECURSIVE Gcd(_, _)
Gcd(a, b) == IF b = 0 THEN a ELSE Gcd(b, a % b)

\* the number n/d in lowest terms; f: it is a Python float
Num(n, d, f) ==
    LET g == Gcd(Abs(n), Abs(d))
        sg == IF d < 0 THEN -1 ELSE 1
    IN  [n |-> sg * (n \div g), d |-> sg * (d \div g), f |-> f, big |-> FALSE]

\* an int of more than 4300 decimal digits
BigInt == [n |-> 0, d |-> 1, f |-> FALSE, big |-> TRUE]

RECURSIVE IntPow(_, _)
IntPow(b, e) == IF e = 0 THEN 1 ELSE b * IntPow(b, e - 1)

\* the outcome of an evaluation: a value, or the exception raised
Value(v) == [st |-> "ok", v |-> v]

Raise(exc) == [st |-> exc, v |-> Num(0, 1, FALSE)]

_ALLOWED_OPS == {"Add", "Sub", "Mult", "Div", "Pow", "USub", "UAdd"}

\* _ALLOWED_OPS[op](a) for the unary operators
ApplyUnary(op, a) == IF op = "USub" /\ ~a.big THEN Value(Num(-a.n, a.d, a.f)) ELSE Value(a)

\* base ** e for ints, e >= 0: base ** e has at least (digits(base) - 1) * e + 1
\* digits, so the power of a base of two or more digits is big from there on
IntPower(base, e) ==
    IF (Len(NatStr(Abs(base))) - 1) * e + 1 > 4300 THEN BigInt
    ELSE Num(IntPow(base, e), 1, FALSE)

\* a division that answers 0.0 for a zero divisor instead of raising
TrueDiv_ZeroForZeroDivisor(a, b) ==
    IF b.n = 0 THEN Value(Num(0, 1, TRUE)) ELSE Value(Num(a.n * b.d, a.d * b.n, TRUE))

\* operator.truediv(a, b): ZeroDivisionError for a divisor equal to zero, int
\* or float; otherwise a float
TrueDiv(a, b) ==
    IF b.n = 0 THEN Raise("ZeroDivisionError") ELSE Value(Num(a.n * b.d, a.d * b.n, TRUE))

\* operator.pow(a, b) for a float exponent that is no integer: 1.0 for the
\* base 1, 0.0 or ZeroDivisionError for the base 0; for any other base the
\* value leaves the rationals and is outside this model
FractionalPower(a, b) ==
    IF a.n = a.d THEN Value(Num(1, 1, TRUE))
    ELSE IF a.n = 0 THEN (IF b.n > 0 THEN Value(Num(0, 1, TRUE)) ELSE Raise("ZeroDivisionError"))
    ELSE OutsideModel("a power with a fractional exponent")

\* _ALLOWED_OPS[op](a, b) for the binary operators.  Arithmetic on a big int
\* is outside this model.
ApplyBinary(op, a, b) ==
    CASE a.big \/ b.big -> OutsideModel("arithmetic on a big int")
      [] op = "Add"  -> Value(Num(a.n * b.d + b.n * a.d, a.d * b.d, a.f \/ b.f))
      [] op = "Sub"  -> Value(Num(a.n * b.d - b.n * a.d, a.d * b.d, a.f \/ b.f))
      [] op = "Mult" -> Value(Num(a.n * b.n, a.d * b.d, a.f \/ b.f))
      [] op = "Div"  -> TrueDiv(a, b)
      [] op = "Pow"  -> IF b.d /= 1 THEN FractionalPower(a, b)
                        ELSE IF b.n >= 0 /\ a.d = 1 /\ ~a.f /\ ~b.f
                        THEN Value(IntPower(a.n, b.n))
                        ELSE IF b.n >= 0
                        THEN Value(Num(IntPow(a.n, b.n), IntPow(a.d, b.n), a.f \/ b.f))
                        ELSE IF a.n = 0 THEN Raise("ZeroDivisionError")
                        ELSE Value(Num(IntPow(a.d, -b.n), IntPow(a.n, -b.n), TRUE))

RECURSIVE _eval_node(_)
_eval_node(node) ==
    IF node.t = "Constant" THEN Value(Num(node.n, node.d, node.f))
    ELSE IF node.t = "UnaryOp" /\ node.op \in _ALLOWED_OPS
    THEN LET a == _eval_node(node.operand)
         IN  IF a.st /= "ok" THEN a ELSE ApplyUnary(node.op, a.v)
    ELSE IF node.t = "BinOp" /\ node.op \in _ALLOWED_OPS
    THEN LET left == _eval_node(node.left)
         IN  IF left.st /= "ok" THEN left
             ELSE LET right == _eval_node(node.right)
                  IN  IF right.st /= "ok" THEN right
                      ELSE ApplyBinary(node.op, left.v, right.v)
    ELSE Raise("ValueError")

safe_eval_expr(e) ==
    IF ~_MATH_RE_fullmatch(e) THEN Raise("ValueError")
    ELSE LET tree == ast_parse(e)
         IN  IF ~tree.ok THEN Raise("SyntaxError")
             ELSE LET val == _eval_node(tree.node)
                  IN  IF val.st = "ok" /\ val.v.f /\ val.v.d = 1
                      THEN Value(Num(val.v.n, 1, FALSE))
                      ELSE val

\* the digits of r/d after the decimal point, at most k of them (r < d)
RECURSIVE FracDigits(_, _, _)
FracDigits(r, d, k) ==
    IF r = 0 \/ k = 0 THEN <<>>
    ELSE <<Digits[((10 * r) \div d) + 1]>> \o FracDigits((10 * r) % d, d, k - 1)

\* str(result) raises ValueError: an int over the interpreter's limit
StrRaises(v) == v.big /\ int_max_str_digits /= 0

\* str(result): an int in decimal (the digits of a big int, which the model
\* does not hold, as one element); a float in positional notation (exact for
\* a float whose decimal expansion ends within 17 digits)
PyStr(v) ==
    IF v.big THEN <<"<the digits of an int of more than 4300 digits>">>
    ELSE IF v.d = 1 /\ ~v.f THEN IntStr(v.n)
    ELSE (IF v.n < 0 THEN <<"-">> ELSE <<>>)
         \o NatStr(Abs(v.n) \div v.d) \o <<".">>
         \o (IF Abs(v.n) % v.d = 0 THEN <<"0">> ELSE FracDigits(Abs(v.n) % v.d, v.d, 17))


-----------------------------------------------------------------------------
(* Chat helpers *)

SYSTEM_PROMPT == <<"You are a helpful, concise assistant for a beginner-friendly Python web app. Answer clearly, use short paragraphs, and avoid making things up. If you are unsure, say so briefly.">>

Turn(role, text) == [role |-> role, text |-> text]

\* l[:10]: the slice that keeps the oldest entries
LastTen_KeepsOldest(l) == IF Len(l) > 10 THEN SubSeq(l, 1, 10) ELSE l

\* l[-10:]
LastTen(l) == IF Len(l) > 10 THEN SubSeq(l, Len(l) - 9, Len(l)) ELSE l

\* the line build_prompt writes for one history entry
TurnLine(m) == (IF m.role = "bot" THEN <<"Assistant", ":", " ">> ELSE <<"User", ":", " ">>) \o m.text

\* the list "lines" of build_prompt
build_prompt_lines(history, text) ==
    <<SYSTEM_PROMPT, <<>>>>
    \o [i \in 1..Len(history) |-> TurnLine(history[i])]
    \o << <<"User", ":", " ">> \o text, <<"Assistant", ":">> >>

\* sep.join(l)
RECURSIVE Join(_, _)
Join(l, sep) ==
    IF l = <<>> THEN <<>>
    ELSE IF Len(l) = 1 THEN l[1]
    ELSE l[1] \o sep \o Join(Tail(l), sep)

build_prompt(history, text) == Join(build_prompt_lines(history, text), <<"\n">>)

\* the first index at which w occurs in s, 0 if none
RECURSIVE Find(_, _, _)
Find(s, w, i) ==
    IF i + Len(w) - 1 > Len(s) THEN 0
    ELSE IF SubSeq(s, i, i + Len(w) - 1) = w THEN i
    ELSE Find(s, w, i + 1)

\* "if marker in text: text = text.split(marker)[0].strip()"
CutAt(text, marker) ==
    IF Find(text, marker, 1) = 0 THEN text
    ELSE Strip(SubSeq(text, 1, Find(text, marker, 1) - 1))

\* the number of retries call_hf_inference is called with (its default)
retries == 2

\* a return value of call_hf_inference: the pair (ok, text), or None when the
\* function runs off its end
Return(ok, text) == [none |-> FALSE, ok |-> ok, text |-> text]

None == [none |-> TRUE, ok |-> FALSE, text |-> <<>>]

\* One upstream exchange, as call_hf_inference sees it:
\*   [k |-> "raise", ...]   requests.post raises a RequestException with text e
\*   [k |-> "status", ...]  a response with an error status (e: the text of the
\*                          HTTPError that raise_for_status makes of it)
\*   [k |-> "json", ...]    a 200 response whose JSON body is
\*        shape "generated"  [{"generated_text": e}]
\*        shape "error"      {"error": e}
\*        shape "other"      a value with neither (e: its str())
\*        shape "scalars"    a list whose first element is no container
\*                           (e: the text of the TypeError of `in`)
Raised(e) == [k |-> "raise", code |-> 0, shape |-> "", e |-> e]

Status(code, e) == [k |-> "status", code |-> code, shape |-> "", e |-> e]

Json(shape, e) == [k |-> "json", code |-> 200, shape |-> shape, e |-> e]

\* the statuses call_hf_inference treats as transient
TransientStatus == {429, 503}

\* a wait that does not grow with the attempt
TransientWait_Constant(a) == 3

\* "wait = 3 * (attempt + 1)", the sleep after a transient status
TransientWait(a) == 3 * (a + 1)

\* "time.sleep(2 * (attempt + 1))", the sleep after a RequestException
ErrorWait(a) == 2 * (a + 1)

\* what one pass of the loop body of call_hf_inference does with upstream
\* exchange o on attempt a:
\*   [op |-> "continue", wait]  sleep `wait` seconds, then the next pass
\*   [op |-> "return", ret]     return ret (wait = 0: no sleep)
LoopPass(o, a) ==
    IF o.k = "status" /\ o.code \in TransientStatus
    THEN [op |-> "continue", wait |-> TransientWait(a), ret |-> None]
    ELSE IF o.k \in {"raise", "status"}
    THEN IF a < retries
         THEN [op |-> "continue", wait |-> ErrorWait(a), ret |-> None]
         ELSE [op |-> "return", wait |-> 0, ret |-> Return(FALSE, <<"Network error: ">> \o o.e)]
    ELSE IF o.shape = "generated"
    THEN LET t0 == Strip(o.e)
             t1 == CutAt(t0, <<"\n", "User", ":">>)
             t2 == CutAt(t1, <<"\n", "Assistant", ":">>)
         IN  [op |-> "return", wait |-> 0,
              ret |-> Return(TRUE, IF t2 = <<>> THEN <<"...">> ELSE t2)]
    ELSE IF o.shape = "error"
    THEN [op |-> "return", wait |-> 0, ret |-> Return(FALSE, <<"Model error: ">> \o o.e)]
    ELSE IF o.shape = "other"
    THEN [op |-> "return", wait |-> 0, ret |-> Return(TRUE, o.e)]
    ELSE [op |-> "return", wait |-> 0, ret |-> Return(FALSE, <<"Unexpected error: ">> \o o.e)]


-----------------------------------------------------------------------------
(* The requests the model sends and the upstream exchanges it draws from *)

\* the number of /chat requests of one run
MaxRequests == 3

\* the number of /chat requests of one run of the long-conversation specification
MaxLongRequests == 7

\* A request body: no "message" key (or no object at all), "message": null,
\* or a message string
NoMessage == [kind |-> "absent", message |-> <<>>]

NullMessage == [kind |-> "null", message |-> <<>>]

Message(text) == [kind |-> "str", message |-> text]

MsgSum == <<"W", "h", "a", "t", " ", "i", "s", " ", "4", "*", "3", "/", "(", "2", "*", "2", ")", "?">>

MsgHalf == <<"7", " ", "o", "v", "e", "r", " ", "2">>

MsgDivZero == <<"1", "2", " ", "d", "i", "v", "i", "d", "e", "d", " ", "b", "y", " ", "0">>

MsgCaret == <<"2", "^", "3">>

MsgDangling == <<"1", " ", "+">>

MsgWhy == <<"w", "h", "y", "?">>

MsgHi == <<" ", "H", "i">>

MsgBig == <<"1", "0", "*", "*", "4", "3", "0", "0">>

MsgBlank == <<" ", "\t">>

Bodies ==
    {NoMessage, NullMessage, Message(<<>>), Message(MsgBlank), Message(MsgSum),
     Message(MsgBig), Message(MsgDivZero), Message(MsgCaret), Message(MsgDangling),
     Message(MsgWhy), Message(MsgHi)}

\* the messages of the specification that draws every upstream exchange
FewBodies == {Message(MsgSum), Message(MsgWhy)}

\* the messages of the long conversations
LongBodies == {Message(MsgHalf), Message(MsgWhy), Message(MsgDivZero)}

Exchanges ==
    {Raised(<<"ConnectionError">>),
     Status(429, <<"429 Client Error">>), Status(503, <<"503 Server Error">>),
     Status(401, <<"401 Client Error">>),
     Json("generated", <<" ", "fine">>),
     Json("generated", <<"sure", "\n", "User", ":", " ", "more">>),
     Json("generated", <<>>),
     Json("error", <<"model overloaded">>),
     Json("other", <<"{'info': 'x'}">>),
     Json("scalars", <<"argument of type 'int' is not iterable">>)}

\* the upstream exchanges of the specification that sends every message
FewExchanges ==
    {Status(503, <<"503 Server Error">>), Json("generated", <<" ", "fine">>),
     Json("error", <<"model overloaded">>)}

\* the upstream exchanges of the long conversations
LongExchanges == {Status(503, <<"503 Server Error">>), Json("generated", <<"fine">>)}

-----------------------------------------------------------------------------
(* The handlers *)

\* a response of /chat: jsonify({"ok": ok, "reply": reply}) or
\* jsonify({"ok": ok, "error": error}), with its status
Reply(text) == [status |-> 200, ok |-> TRUE, reply |-> text, error |-> ""]

Error(status, text) == [status |-> status, ok |-> FALSE, reply |-> <<>>, error |-> text]

NoResponse == [status |-> 0, ok |-> FALSE, reply |-> <<>>, error |-> ""]

NoResult == [st |-> "none", v |-> Num(0, 1, FALSE)]

\* the limits of int -> str the interpreter may run with: the default of
\* CPython since 3.11 (and 3.10.7, 3.9.14, 3.8.14, 3.7.14), or none
StrDigitLimits == {0, 4300}

NoBody == [kind |-> "none", message |-> <<>>]

\* no expression tree: safe_eval_expr was handed a text as it is
NoExpression == [t |-> "none"]

\* no streaming request has been made
NoStream == [phase |-> "idle", text |-> <<>>, events |-> 0, frames |-> <<>>, reply |-> <<>>]

\* the number of concurrent workers
MaxWorkers == 3

Workers == 1..MaxWorkers

\* model_lock = threading.Lock(): held by no worker
NoWorker == 0

Init ==
    /\ HF_TOKEN \in BOOLEAN
    /\ int_max_str_digits \in StrDigitLimits
    /\ stream = NoStream
    /\ model_lock = NoWorker
    /\ worker = [w \in Workers |-> "idle"]
    /\ loaded_by = <<>>
    /\ given = NoExpression
    /\ model_ready = FALSE
    /\ session = <<>>
    /\ pc = "idle"
    /\ body = NoBody
    /\ user_text = <<>>
    /\ expr = <<>>
    /\ result = NoResult
    /\ msgs = <<>>
    /\ lines = <<>>
    /\ prompt_text = <<>>
    /\ attempt = 0
    /\ hf_return = None
    /\ response = NoResponse
    /\ sent = 0
    /\ sleeps = <<>>
    /\ upstream = <<>>
    /\ calls = <<>>
    /\ session0 = <<>>
    /\ committed = <<>>
    /\ nreq = 0

\* the message read without .strip()
ReadMessage_NoStrip(b) == b.message

\* (request.json or {}).get("message", "").strip(), for a body that has a
\* message string or none
ReadMessage(b) == Strip(b.message)

\* chat, lines 280-283 (and 313-317 when reading the message raises): the
\* message is read and stripped; an empty one is answered with 400
ChatStart(b) ==
    /\ pc \in {"idle", "done"}
    /\ nreq' = nreq + 1
    /\ body' = b
    /\ session0' = session
    /\ calls' = <<>>
    /\ sent' = 0
    /\ sleeps' = <<>>
    /\ upstream' = <<>>
    /\ expr' = <<>>
    /\ result' = NoResult
    /\ msgs' = <<>>
    /\ lines' = <<>>
    /\ prompt_text' = <<>>
    /\ attempt' = 0
    /\ hf_return' = None
    /\ IF b.kind = "null"
       THEN user_text' = <<>> /\ pc' = "done" /\ response' = Error(500, "Internal server error")
       ELSE /\ user_text' = ReadMessage(b)
            /\ IF ReadMessage(b) = <<>>
               THEN pc' = "done" /\ response' = Error(400, "Empty message")
               ELSE pc' = "guardrail" /\ response' = NoResponse
    /\ UNCHANGED <<HF_TOKEN, int_max_str_digits, stream, model_lock, worker, loaded_by, given, model_ready, session, committed>>

\* a guardrail whose result is never used: every request goes on to the model
GuardrailHit_Never(e, r) == FALSE

\* a guardrail that answers with whatever the evaluation left, failed or not
GuardrailHit_AnyCandidate(e, r) == e /= <<>>

\* "if expr:" and the try block reaching its return (lines 287-295): the
\* evaluation returns and print(f"... {result}") does not raise
GuardrailHit(e, r) == e /= <<>> /\ r.st = "ok" /\ ~StrRaises(r.v)

\* chat, lines 285-297: the math guardrail
ChatGuardrail ==
    /\ pc = "guardrail"
    /\ LET e    == extract_math_expression(user_text)
           r    == IF e /= <<>> THEN safe_eval_expr(e) ELSE NoResult
           user == Turn("user", user_text)
           bot  == Turn("bot", PyStr(r.v))
       IN  /\ expr' = e
           /\ result' = r
           /\ calls' = calls \o <<"extract_math_expression">>
                         \o (IF e /= <<>> THEN <<"safe_eval_expr">> ELSE <<>>)
           /\ IF GuardrailHit(e, r)
              THEN /\ session' = LastTen(session \o <<user, bot>>)
                   /\ committed' = committed \o <<user, bot>>
                   /\ response' = Reply(PyStr(r.v))
                   /\ pc' = "done"
              ELSE /\ pc' = "model"
                   /\ UNCHANGED <<session, committed, response>>
    /\ UNCHANGED <<HF_TOKEN, int_max_str_digits, stream, model_lock, worker, loaded_by, given, model_ready, body, user_text, msgs, lines, prompt_text, attempt,
                   hf_return, sent, sleeps, upstream, session0, nreq>>

\* chat, lines 300-307 up to the loop of call_hf_inference (lines 182-194):
\* the local list, ensure_model_loaded, build_prompt, the token check
ChatModelPath ==
    /\ pc = "model"
    /\ LET m1 == Append(session, Turn("user", user_text))
           m2 == IF Len(m1) > 10 THEN LastTen(m1) ELSE m1
       IN  /\ msgs' = m2
           /\ lines' = build_prompt_lines(m2, user_text)
           /\ prompt_text' = build_prompt(m2, user_text)
    /\ model_ready' = TRUE
    /\ calls' = calls \o <<"ensure_model_loaded", "build_prompt", "call_hf_inference">>
    /\ attempt' = 0
    /\ IF HF_TOKEN
       THEN pc' = "hf" /\ hf_return' = None
       ELSE pc' = "reply" /\ hf_return' = Return(FALSE, <<"Server error: HF_API_TOKEN is not set.">>)
    /\ UNCHANGED <<HF_TOKEN, int_max_str_digits, stream, model_lock, worker, loaded_by, given, session, body, user_text, expr, result, response, sent, sleeps,
                   upstream, session0, committed, nreq>>

\* call_hf_inference, lines 196-223: one pass of the loop, with upstream exchange o
HfAttempt(o) ==
    /\ pc = "hf"
    /\ sent' = sent + 1
    /\ upstream' = Append(upstream, o)
    /\ LET p == LoopPass(o, attempt)
       IN  IF p.op = "continue"
           THEN /\ sleeps' = Append(sleeps, p.wait)
                /\ attempt' = attempt + 1
                /\ hf_return' = None
                /\ pc' = IF attempt + 1 < retries + 1 THEN "hf" ELSE "reply"
           ELSE /\ hf_return' = p.ret
                /\ pc' = "reply"
                /\ UNCHANGED <<sleeps, attempt>>
    /\ UNCHANGED <<HF_TOKEN, int_max_str_digits, stream, model_lock, worker, loaded_by, given, model_ready, session, body, user_text, expr, result, msgs, lines,
                   prompt_text, response, calls, session0, committed, nreq>>

\* line 308: reply_text = reply_or_err if ok else f"(LLM) {reply_or_err}"
ReplyText(ret) == IF ret.ok THEN ret.text ELSE <<"(LLM) ">> \o ret.text

\* the user turn appended at line 301 kept in the session when unpacking the
\* return value raises
ChatReply_StoresUserOnError ==
    /\ pc = "reply"
    /\ pc' = "done"
    /\ IF hf_return.none
       THEN /\ response' = Error(500, "Internal server error")
            /\ session' = msgs
            /\ UNCHANGED <<committed, msgs>>
       ELSE LET reply_text == ReplyText(hf_return)
                bot == Turn("bot", reply_text)
            IN  /\ msgs' = Append(msgs, bot)
                /\ session' = Append(msgs, bot)
                /\ committed' = committed \o <<Turn("user", user_text), bot>>
                /\ response' = Reply(reply_text)
    /\ UNCHANGED <<HF_TOKEN, int_max_str_digits, stream, model_lock, worker, loaded_by, given, model_ready, body, user_text, expr, result, lines, prompt_text,
                   attempt, hf_return, sent, sleeps, upstream, calls, session0, nreq>>

\* chat, lines 307-312 (and 313-317 when unpacking the return value raises)
ChatReply ==
    /\ pc = "reply"
    /\ pc' = "done"
    /\ IF hf_return.none
       THEN /\ response' = Error(500, "Internal server error")
            /\ UNCHANGED <<session, committed, msgs>>
       ELSE LET reply_text == ReplyText(hf_return)
                bot == Turn("bot", reply_text)
            IN  /\ msgs' = Append(msgs, bot)
                /\ session' = Append(msgs, bot)
                /\ committed' = committed \o <<Turn("user", user_text), bot>>
                /\ response' = Reply(reply_text)
    /\ UNCHANGED <<HF_TOKEN, int_max_str_digits, stream, model_lock, worker, loaded_by, given, model_ready, body, user_text, expr, result, lines, prompt_text,
                   attempt, hf_return, sent, sleeps, upstream, calls, session0, nreq>>

\* reset, lines 319-322; the state of the /chat request before it is gone
Reset ==
    /\ pc = "done"
    /\ pc' = "idle"
    /\ session' = <<>>
    /\ committed' = <<>>
    /\ session0' = <<>>
    /\ body' = NoBody
    /\ user_text' = <<>>
    /\ expr' = <<>>
    /\ result' = NoResult
    /\ msgs' = <<>>
    /\ lines' = <<>>
    /\ prompt_text' = <<>>
    /\ attempt' = 0
    /\ hf_return' = None
    /\ response' = NoResponse
    /\ sent' = 0
    /\ sleeps' = <<>>
    /\ upstream' = <<>>
    /\ calls' = <<>>
    /\ UNCHANGED <<HF_TOKEN, int_max_str_digits, stream, model_lock, worker, loaded_by, given, model_ready, nreq>>

\* every kind of message, few kinds of upstream exchange
Next ==
    \/ \E b \in Bodies : nreq < MaxRequests /\ ChatStart(b)
    \/ ChatGuardrail
    \/ ChatModelPath
    \/ \E o \in FewExchanges : HfAttempt(o)
    \/ ChatReply
    \/ Reset

Spec == Init /\ [][Next]_vars

\* every kind of upstream exchange, few kinds of message
RetryNext ==
    \/ \E b \in FewBodies : nreq < MaxRequests /\ ChatStart(b)
    \/ ChatGuardrail
    \/ ChatModelPath
    \/ \E o \in Exchanges : HfAttempt(o)
    \/ ChatReply
    \/ Reset

RetrySpec == Init /\ [][RetryNext]_vars

\* long conversations with few kinds of message and of upstream exchange
LongNext ==
    \/ \E b \in LongBodies : nreq < MaxLongRequests /\ ChatStart(b)
    \/ ChatGuardrail
    \/ ChatModelPath
    \/ \E o \in LongExchanges : HfAttempt(o)
    \/ ChatReply
    \/ Reset

LongSpec == Init /\ [][LongNext]_vars

-----------------------------------------------------------------------------
(* Concurrent workers in ensure_model_loaded (lines 74-84) and in the call   *)
(* of call_hf_inference that follows it in chat (lines 305-307).  Each step  *)
(* is one read or write of model_ready or one operation of model_lock.       *)

\* the variables of the single request above, which the workers leave alone
request_vars ==
    <<HF_TOKEN, int_max_str_digits, stream, given, session, pc, body, user_text, expr, result, msgs, lines,
      prompt_text, attempt, hf_return, response, sent, sleeps, upstream, calls, session0,
      committed, nreq>>

\* chat, line 305: a worker calls ensure_model_loaded
WorkerCall(w) ==
    /\ worker[w] = "idle"
    /\ worker' = [worker EXCEPT ![w] = "line77"]
    /\ UNCHANGED <<model_ready, model_lock, loaded_by, request_vars>>

\* lines 77-78: "if model_ready: return", without the lock
WorkerFirstCheck(w) ==
    /\ worker[w] = "line77"
    /\ worker' = [worker EXCEPT ![w] = IF model_ready THEN "call_hf_inference" ELSE "line79"]
    /\ UNCHANGED <<model_ready, model_lock, loaded_by, request_vars>>

\* line 79: "with model_lock:" acquires the lock once it is free
WorkerAcquire(w) ==
    /\ worker[w] = "line79"
    /\ model_lock = NoWorker
    /\ model_lock' = w
    /\ worker' = [worker EXCEPT ![w] = "line80"]
    /\ UNCHANGED <<model_ready, loaded_by, request_vars>>

\* the second check left out: whoever gets the lock initializes
RecheckUnderLock_Skipped(ready) == FALSE

\* line 80: "if model_ready:" with the lock held
RecheckUnderLock(ready) == ready

\* lines 80-81: the second check; "return" leaves the with block
WorkerSecondCheck(w) ==
    /\ worker[w] = "line80"
    /\ worker' = [worker EXCEPT ![w] = IF RecheckUnderLock(model_ready) THEN "exit" ELSE "line82"]
    /\ UNCHANGED <<model_ready, model_lock, loaded_by, request_vars>>

\* lines 82-84: the credential check (a warning when HF_TOKEN is not set)
\* and model_ready = True
WorkerInitialize(w) ==
    /\ worker[w] = "line82"
    /\ model_ready' = TRUE
    /\ loaded_by' = Append(loaded_by, w)
    /\ worker' = [worker EXCEPT ![w] = "exit"]
    /\ UNCHANGED <<model_lock, request_vars>>

\* the end of the with block releases the lock; ensure_model_loaded returns
\* and chat goes on to build_prompt and call_hf_inference (lines 306-307)
WorkerRelease(w) ==
    /\ worker[w] = "exit"
    /\ model_lock' = NoWorker
    /\ worker' = [worker EXCEPT ![w] = "call_hf_inference"]
    /\ UNCHANGED <<model_ready, loaded_by, request_vars>>

\* call_hf_inference returns (its loop is bounded and every post has a
\* timeout); the worker is free for its next request
WorkerReturn(w) ==
    /\ worker[w] = "call_hf_inference"
    /\ worker' = [worker EXCEPT ![w] = "idle"]
    /\ UNCHANGED <<model_ready, model_lock, loaded_by, request_vars>>

\* the steps of a worker once it has called ensure_model_loaded
WorkerStep(w) ==
    \/ WorkerFirstCheck(w)
    \/ WorkerAcquire(w)
    \/ WorkerSecondCheck(w)
    \/ WorkerInitialize(w)
    \/ WorkerRelease(w)
    \/ WorkerReturn(w)

WorkerNext ==
    \/ \E w \in Workers : WorkerCall(w)
    \/ \E w \in Workers : WorkerFirstCheck(w)
    \/ \E w \in Workers : WorkerAcquire(w)
    \/ \E w \in Workers : WorkerSecondCheck(w)
    \/ \E w \in Workers : WorkerInitialize(w)
    \/ \E w \in Workers : WorkerRelease(w)
    \/ \E w \in Workers : WorkerReturn(w)

\* the threads of the server are scheduled fairly: a worker that can take its
\* next step takes it
WorkerSpec == Init /\ [][WorkerNext]_vars /\ \A w \in Workers : WF_vars(WorkerStep(w))


-----------------------------------------------------------------------------
(* safe_eval_expr called on its own (lines 133-138), on the texts of          *)
(* well-formed expressions and on arbitrary short texts, next to /chat        *)
(* requests that carry a division.                                           *)

\* a well-formed expression: a number, a sign applied to an expression, or a
\* binary operator applied to two expressions
ExprLiteral(n) == [t |-> "Literal", n |-> n]

ExprUnary(op, x) == [t |-> "Unary", op |-> op, x |-> x]

ExprBinary(op, l, r) == [t |-> "Binary", op |-> op, l |-> l, r |-> r]

\* the numbers the expressions are built from
Leaves == {ExprLiteral(1), ExprLiteral(2), ExprLiteral(3)}

\* the exponents: small, so that every power stays within TLC's integers
Exponents ==
    {ExprLiteral(1), ExprLiteral(2)}
        \cup {ExprBinary("^", ExprLiteral(a), ExprLiteral(b)) : a, b \in {1, 2}}

\* the expressions with one operator more than those of sub
Grow(sub) ==
    Leaves
        \cup {ExprBinary(op, l, r) : op \in {"+", "-", "*", "/"}, l \in sub, r \in sub}
        \cup {ExprBinary("^", l, r) : l \in sub, r \in Exponents}
        \cup {ExprUnary(op, x) : op \in {"+", "-"}, x \in sub}

\* the well-formed expressions with operators nested at most twice
Expressions == Grow(Grow(Leaves))

\* how tightly the top of an expression binds: + and -, then * and /, then a
\* sign, then ^, then a number
Binding(x) ==
    CASE x.t = "Literal" -> 5
      [] x.t = "Unary" -> 3
      [] x.t = "Binary" /\ x.op = "^" -> 4
      [] x.t = "Binary" /\ x.op \in {"*", "/"} -> 2
      [] x.t = "Binary" /\ x.op \in {"+", "-"} -> 1

Parenthesized(needed, text) == IF needed THEN <<"(">> \o text \o <<")">> ELSE text

\* the text of an expression, with the parentheses its shape needs when ^
\* binds tighter than a sign, a sign tighter than * and /, these tighter than
\* + and -, the operators + - * / group to the left and ^ groups to the right
RECURSIVE Render(_)
Render(x) ==
    CASE x.t = "Literal" -> NatStr(x.n)
      [] x.t = "Unary" -> <<x.op>> \o Parenthesized(Binding(x.x) < 4, Render(x.x))
      [] x.t = "Binary" ->
            Parenthesized(Binding(x.l) < Binding(x) \/ (Binding(x.l) = Binding(x) /\ x.op = "^"),
                          Render(x.l))
            \o <<x.op>>
            \o Parenthesized(Binding(x.r) < Binding(x) \/ (Binding(x.r) = Binding(x) /\ x.op /= "^"),
                             Render(x.r))

\* the characters of the short texts
TextChars == {"1", "0", "/", "-", "*", "(", ")", ".", "a"}

\* the length of the short texts
MaxTextLen == 4

\* every text of at most MaxTextLen characters
ShortTexts == UNION {[1..n -> TextChars] : n \in 0..MaxTextLen}

\* longer texts: spaces, ^, + and divisors that are zero in other ways
LongTexts ==
    {<<"1", " ", "-", " ", "-", " ", "1">>, <<"2", " ", "*", " ", "*", " ", "3">>,
     <<" ", "1", "+", "2">>, <<"1", " ", "+", " ", "2", " ">>, <<"2", "^", "3", "/", "0">>,
     <<"1", "/", "(", "1", "-", "1", ")">>, <<"1", "/", "(", "2", "*", "0", ")">>,
     <<"1", "/", "(", "0", "/", "5", ")">>, <<"1", "/", "0", "*", "*", "2">>,
     <<"1", "/", "0", ".", "0", "0">>, <<"2", "*", "*", "-", "1", "/", "0">>,
     <<"1", "+", "(", "1", "/", "0", ")">>, <<"(", "1", "+", "2", ")", "/", "-", "0">>,
     <<"1", "+", "+", "2">>, <<"1", "+", "*", "2">>, <<"(", "1", "+", "2">>,
     <<"1", "+", "2", ")">>, <<"x", "+", "1">>, <<"2", "/", "/", "0">>}

Texts == ShortTexts \cup LongTexts

\* the /chat messages that carry a division
MsgDivZeroFloat == <<"w", "h", "a", "t", " ", "i", "s", " ", "3", "/", "0", ".", "0", "?">>

MsgDivZeroDifference == <<"5", " ", "o", "v", "e", "r", " ", "(", "2", " ", "m", "i", "n", "u", "s", " ", "2", ")">>

DivisionBodies ==
    {Message(MsgDivZero), Message(MsgDivZeroFloat), Message(MsgDivZeroDifference),
     Message(MsgHalf)}

\* safe_eval_expr may be called on its own: in a process that has served no
\* request yet
EvaluateReady == pc = "idle" /\ nreq = 0

\* safe_eval_expr is called with the text e (of the expression x)
Evaluate(x, e) ==
    /\ EvaluateReady
    /\ pc' = "evaluated"
    /\ given' = x
    /\ expr' = e
    /\ result' = safe_eval_expr(e)
    /\ calls' = <<"safe_eval_expr">>
    /\ UNCHANGED <<HF_TOKEN, int_max_str_digits, stream, model_lock, worker, loaded_by, model_ready,
                   session, body, user_text, msgs, lines, prompt_text, attempt, hf_return,
                   response, sent, sleeps, upstream, session0, committed, nreq>>

\* the caller of safe_eval_expr drops what it got
EvaluateReturn ==
    /\ pc = "evaluated"
    /\ pc' = "idle"
    /\ given' = NoExpression
    /\ expr' = <<>>
    /\ result' = NoResult
    /\ calls' = <<>>
    /\ UNCHANGED <<HF_TOKEN, int_max_str_digits, stream, model_lock, worker, loaded_by, model_ready,
                   session, body, user_text, msgs, lines, prompt_text, attempt, hf_return,
                   response, sent, sleeps, upstream, session0, committed, nreq>>

EvalNext ==
    \/ EvaluateReady /\ \E x \in Expressions : Evaluate(x, Render(x))
    \/ EvaluateReady /\ \E e \in Texts : Evaluate(NoExpression, e)
    \/ EvaluateReturn
    \/ \E b \in DivisionBodies : nreq < MaxRequests /\ ChatStart(b)
    \/ ChatGuardrail
    \/ ChatModelPath
    \/ \E o \in LongExchanges : HfAttempt(o)
    \/ ChatReply
    \/ Reset

EvalSpec == Init /\ [][EvalNext]_vars

-----------------------------------------------------------------------------
(* extract_math_expression called on its own (lines 164-166), on sentences   *)
(* that hold several arithmetic phrases separated by words.                  *)

\* the arithmetic phrases
Phrases ==
    {<<"1", "+", "2">>, <<"3", " ", "+", " ", "4">>, <<"1", "0", "*", "2">>,
     <<"7", " ", "-", " ", "1", "1">>, <<"(", "2", "+", "3", ")", "/", "4">>}

\* the words between two phrases
Separator == <<" ", "a", "n", "d", " ">>

\* the number of phrases of a sentence
MaxPhrases == 3

\* the phrases ps with the words between them
RECURSIVE Sentence(_)
Sentence(ps) ==
    IF Len(ps) = 1 THEN ps[1] ELSE ps[1] \o Separator \o Sentence(Tail(ps))

\* the choices of two to MaxPhrases phrases, in the order of the sentence
PhraseLists == UNION {[1..n -> Phrases] : n \in 2..MaxPhrases}

\* extract_math_expression is called with the sentence of the phrases ps
Extract(ps) ==
    /\ pc = "idle"
    /\ pc' = "extracted"
    /\ given' = ps
    /\ user_text' = Sentence(ps)
    /\ expr' = extract_math_expression(Sentence(ps))
    /\ calls' = <<"extract_math_expression">>
    /\ UNCHANGED <<HF_TOKEN, int_max_str_digits, stream, model_lock, worker, loaded_by, model_ready,
                   session, body, result, msgs, lines, prompt_text, attempt, hf_return,
                   response, sent, sleeps, upstream, session0, committed, nreq>>

\* the caller of extract_math_expression drops what it got
ExtractReturn ==
    /\ pc = "extracted"
    /\ pc' = "idle"
    /\ given' = NoExpression
    /\ user_text' = <<>>
    /\ expr' = <<>>
    /\ calls' = <<>>
    /\ UNCHANGED <<HF_TOKEN, int_max_str_digits, stream, model_lock, worker, loaded_by, model_ready,
                   session, body, result, msgs, lines, prompt_text, attempt, hf_return,
                   response, sent, sleeps, upstream, session0, committed, nreq>>

ExtractNext ==
    \/ pc = "idle" /\ \E ps \in PhraseLists : Extract(ps)
    \/ ExtractReturn

ExtractSpec == Init /\ [][ExtractNext]_vars

-----------------------------------------------------------------------------
(* Streaming mode.  The streaming route is one of the HTTP-layer variants   *)
(* of the repository and is not in src/app.py; this section follows the     *)
(* contract of the StreamAccumulator (spec.md, 4.6) and the wire format     *)
(* (spec.md, 6).  One worker handles the request: an upstream event         *)
(* arrives, is forwarded, and control returns to wait for the next.         *)

\* the most upstream events of one stream
MaxEvents == 3

\* the most streaming requests of one session
MaxStreams == 2

\* the token strings an upstream "text" event carries; one is empty
Tokens == {<<>>, <<"a">>, <<"b">>}

\* the message of a streaming request, already stripped and not empty
StreamTexts == {<<"h", "i">>}

\* what the synchronous call of the fallback produces; one result is empty
FallbackTexts == {<<>>, <<"o", "k">>}

\* the wire frames: {"token": ...}, {"error": ...} and the [DONE] sentinel
TokenFrame(t) == [kind |-> "token", payload |-> t]

ErrorFrame(m) == [kind |-> "error", payload |-> m]

DoneFrame == [kind |-> "done", payload |-> <<>>]

\* only the latest token kept
Accumulate_LastOnly(reply, t) == t

\* "accumulates all forwarded token text, in order, into a single reply string"
Accumulate(reply, t) == reply \o t

\* "forwards each non-empty token as a wire frame immediately"
Forwarded(t) == t /= <<>>

\* a request in streaming mode reaches the accumulator
StreamStart(t) ==
    /\ pc = "idle"
    /\ stream.phase \in {"idle", "closed"}
    /\ nreq < MaxStreams
    /\ nreq' = nreq + 1
    /\ session0' = session
    /\ stream' = [phase |-> "consuming", text |-> t, events |-> 0, frames |-> <<>>, reply |-> <<>>]
    /\ UNCHANGED <<HF_TOKEN, int_max_str_digits, model_lock, worker, loaded_by, given, model_ready, session, pc, body, user_text, expr, result, msgs, lines,
                   prompt_text, attempt, hf_return, response, sent, sleeps, upstream, calls, committed>>

\* the variables a stream in progress leaves alone
stream_frame ==
    <<HF_TOKEN, int_max_str_digits, model_lock, worker, loaded_by, given, model_ready, pc, body, user_text, expr, result, msgs, lines,
      prompt_text, attempt, hf_return, response, sent, sleeps, upstream, calls, session0, nreq>>

\* one upstream text event: forwarded and accumulated unless it is empty
StreamEvent(t) ==
    /\ stream.phase = "consuming"
    /\ stream.events < MaxEvents
    /\ stream' = IF Forwarded(t)
                 THEN [stream EXCEPT !.events = @ + 1,
                                     !.frames = Append(@, TokenFrame(t)),
                                     !.reply = Accumulate(@, t)]
                 ELSE [stream EXCEPT !.events = @ + 1]
    /\ UNCHANGED <<session, committed, stream_frame>>

\* the event sequence terminates; with zero tokens forwarded the accumulator
\* falls back to the synchronous call
StreamEnd ==
    /\ stream.phase = "consuming"
    /\ stream' = [stream EXCEPT !.phase = IF stream.frames = <<>> THEN "fallback" ELSE "terminal"]
    /\ UNCHANGED <<session, committed, stream_frame>>

\* the fallback: one synchronous model call, its result forwarded as one
\* frame; when it is empty too, an error frame is written instead of the
\* terminal marker and nothing is committed
StreamFallback(t) ==
    /\ stream.phase = "fallback"
    /\ stream' = IF Forwarded(t)
                 THEN [stream EXCEPT !.phase = "terminal",
                                     !.frames = Append(@, TokenFrame(t)),
                                     !.reply = Accumulate(@, t)]
                 ELSE [stream EXCEPT !.phase = "closed",
                                     !.frames = Append(@, ErrorFrame("no text"))]
    /\ UNCHANGED <<session, committed, stream_frame>>

\* the terminal marker, once, after all token frames
StreamDone ==
    /\ stream.phase = "terminal"
    /\ stream' = [stream EXCEPT !.phase = "commit", !.frames = Append(@, DoneFrame)]
    /\ UNCHANGED <<session, committed, stream_frame>>

\* after the terminal marker: user turn, then bot turn, truncate
StreamCommit ==
    /\ stream.phase = "commit"
    /\ LET turns == <<Turn("user", stream.text), Turn("bot", stream.reply)>>
       IN  /\ session' = LastTen(session \o turns)
           /\ committed' = committed \o turns
    /\ stream' = [stream EXCEPT !.phase = "closed"]
    /\ UNCHANGED stream_frame

StreamNext ==
    \/ \E t \in StreamTexts : StreamStart(t)
    \/ \E t \in Tokens : StreamEvent(t)
    \/ StreamEnd
    \/ \E t \in FallbackTexts : StreamFallback(t)
    \/ StreamDone
    \/ StreamCommit

StreamSpec == Init /\ [][StreamNext]_vars


-----------------------------------------------------------------------------
(* Properties *)

Called(f) == \E i \in 1..Len(calls) : calls[i] = f

\* the guardrail of the current request has run and has evaluated its candidate
GuardrailSucceeded == Called("safe_eval_expr") /\ result.st = "ok"

\* the guardrail of the current request has run and has failed: no candidate,
\* or a candidate whose evaluation raised
GuardrailFailed == Called("extract_math_expression") /\ result.st /= "ok"

\* the guardrail of the current request runs before the prompt is built:
\* extract_math_expression, then safe_eval_expr on a candidate
GuardrailRunsFirst ==
    /\ \A i \in 1..Len(calls) :
          calls[i] \in {"build_prompt", "call_hf_inference"}
              => /\ \E j \in 1..(i - 1) : calls[j] = "extract_math_expression"
                 /\ expr /= <<>> => \E j \in 1..(i - 1) : calls[j] = "safe_eval_expr"
    /\ pc \in {"model", "hf", "reply"} => Called("extract_math_expression")

\* the request is answered with the value as text, without build_prompt or
\* call_hf_inference being entered and without any upstream request
AnsweredByGuardrail ==
    /\ pc = "done"
    /\ response = Reply(PyStr(result.v))
    /\ ~Called("build_prompt")
    /\ ~Called("call_hf_inference")
    /\ sent = 0
    /\ lines = <<>>

\* C1 as stated: in every request the guardrail runs before build_prompt, and
\* a request whose guardrail evaluation succeeded is answered with the value
\* as text without build_prompt or call_hf_inference being entered.  Violated
\* by "10**4300": the evaluation returns an int of 4301 digits, printing it
\* raises ValueError inside the try block and the request goes to the model.
C1_GuardrailFirst ==
    /\ GuardrailRunsFirst
    /\ GuardrailSucceeded => AnsweredByGuardrail

\* C1 amended: in every request the guardrail runs before build_prompt, and a
\* request whose guardrail evaluation succeeded with a value that Python
\* converts to text is answered with that text without build_prompt or
\* call_hf_inference being entered; a value it refuses to convert (an int of
\* more than 4300 digits under the default limit) sends the request to the
\* model path.
C1_GuardrailFirstWhenPrintable ==
    /\ GuardrailRunsFirst
    /\ GuardrailSucceeded /\ ~StrRaises(result.v) => AnsweredByGuardrail
    /\ GuardrailSucceeded /\ StrRaises(result.v)
          => pc \in {"model", "hf", "reply", "done"} /\ (pc = "done" => Called("build_prompt"))

\* C1 witness: a second request of a session is answered by the guardrail
C1_Witness ==
    /\ pc = "done"
    /\ GuardrailSucceeded
    /\ user_text = MsgSum
    /\ response.reply = <<"3">>
    /\ session0 /= <<>>


\* C2: the stored history never holds more than 10 turns.
C2_HistoryAtMostTen == Len(session) <= 10

\* s is the last Len(s) elements of l
IsSuffix(s, l) == Len(s) <= Len(l) /\ s = SubSeq(l, Len(l) - Len(s) + 1, Len(l))

\* C3: the stored history is a suffix, in order, of the sequence of all turns
\* committed in the session, so only the oldest turns are ever dropped; and the
\* two turns of the newest committed exchange are in it.
C3_OldestEvictedFirst ==
    /\ IsSuffix(session, committed)
    /\ committed /= <<>> => Len(session) >= 2

\* C3 witness: turns have been evicted after guardrail and model exchanges
C3_Witness ==
    /\ pc = "done"
    /\ Len(committed) > Len(session)
    /\ \E i \in 1..Len(session) : session[i].text = <<"3", ".", "5">>
    /\ \E i \in 1..Len(session) : session[i].text = <<"fine">>


\* the reply text chat makes of what call_hf_inference returned
ModelReplyText == IF hf_return.ok THEN hf_return.text ELSE <<"(LLM) ">> \o hf_return.text

\* h is the history before the request (its oldest turns possibly dropped)
\* followed by the user turn and the model path's reply, and by nothing else
ModelExchangeStored(h) ==
    /\ Len(h) >= 2
    /\ h[Len(h)] = Turn("bot", ModelReplyText)
    /\ h[Len(h) - 1] = Turn("user", user_text)
    /\ IsSuffix(SubSeq(h, 1, Len(h) - 2), session0)

\* C4: a request with a non-empty message whose guardrail attempt failed (no
\* candidate, or a candidate whose evaluation raised) goes on to the model
\* path: until the model path ends nothing is answered and nothing is stored,
\* the prompt is built and call_hf_inference entered, and the finished request
\* carries what the model path produced: its reply, stored after the user turn
\* as the only two new turns, or the response of the model path's own failure.
C4_GuardrailDefersSilently ==
    GuardrailFailed
        => /\ pc \in {"model", "hf", "reply", "done"}
           /\ pc \in {"model", "hf", "reply"} => session = session0 /\ response = NoResponse
           /\ pc \in {"hf", "reply", "done"}
                 => Called("build_prompt") /\ Called("call_hf_inference")
           /\ pc = "done" /\ ~hf_return.none
                 => response = Reply(ModelReplyText) /\ ModelExchangeStored(session)
           /\ pc = "done" /\ hf_return.none
                 => response = Error(500, "Internal server error") /\ session = session0

\* C4 witness: a division by zero in the second request of a session was
\* answered by the model
C4_Witness ==
    /\ pc = "done"
    /\ GuardrailFailed
    /\ result.st = "ZeroDivisionError"
    /\ response = Reply(<<"fine">>)
    /\ session0 /= <<>>

AllTransient == \A i \in 1..Len(upstream) : upstream[i].k = "status" /\ upstream[i].code \in TransientStatus

\* C5: when each of the retries + 1 attempts got a transient status (429 or
\* 503), call_hf_inference returns (False, message) and the request ends with
\* the reply made of that message, never with the handler's internal error.
C5_ExhaustionIsReported ==
    pc \in {"reply", "done"} /\ Len(upstream) = retries + 1 /\ AllTransient
        => /\ ~hf_return.none
           /\ ~hf_return.ok
           /\ pc = "done" => response = Reply(ModelReplyText)

\* C6: an error status other than 429 and 503 is not retried: it is the last
\* upstream exchange of the request, call_hf_inference has returned a failure,
\* and no sleep followed it.
C6_FatalNotRetried ==
    \A i \in 1..Len(upstream) :
        upstream[i].k = "status" /\ upstream[i].code \notin TransientStatus
            => /\ i = Len(upstream)
               /\ pc \in {"reply", "done"}
               /\ ~hf_return.none /\ ~hf_return.ok
               /\ Len(sleeps) = i - 1

\* C7: call_hf_inference posts at most retries + 1 = 3 upstream requests and
\* has left its loop once the last of them is handled, and of the sleeps that
\* precede a re-send each is strictly longer than the one before.
C7_BoundedRetriesGrowingBackoff ==
    /\ sent <= retries + 1
    /\ sent = Len(upstream)
    /\ pc = "hf" => sent = attempt /\ attempt <= retries
    /\ sent = retries + 1 => pc \in {"reply", "done"}
    /\ Len(sleeps) >= sent - 1
    /\ \A k \in 2..(sent - 1) : sleeps[k - 1] < sleeps[k]

\* C7 witness: three requests were posted, the re-sends after a transient
\* status and after a connection error
C7_Witness ==
    /\ pc = "reply"
    /\ sent = retries + 1
    /\ upstream[1].k = "status" /\ upstream[1].code = 503
    /\ upstream[2].k = "raise"
    /\ sleeps[1] = 3 /\ sleeps[2] = 4

\* the message of the request is missing, empty or only white space
EmptyInput == body.kind \in {"absent", "str"} /\ \A i \in 1..Len(body.message) : body.message[i] \in WhiteSpace

\* C8: a request whose message is missing, empty or only white space is
\* answered with 400 "Empty message" at once: no guardrail, no prompt, no
\* upstream request, and the stored history is what it was.
C8_EmptyInputFailsFast ==
    EmptyInput
        => /\ pc = "done"
           /\ response = Error(400, "Empty message")
           /\ calls = <<>>
           /\ sent = 0
           /\ session = session0

\* C8 witness: a message of white space sent to a session that has a history
C8_Witness ==
    /\ pc = "done"
    /\ body = Message(MsgBlank)
    /\ response.status = 400
    /\ session /= <<>>


\* the greeting tokens of the fast path
Greetings == {<<"h", "i">>, <<"h", "e", "l", "l", "o">>, <<"h", "e", "y">>}

IsGreeting == Lower(Strip(user_text)) \in Greetings

CurrentUserLine == <<"User", ":", " ">> \o user_text

\* C9: for a message that is no greeting, the context built for the model is
\* the system instruction, then one line for each turn of the history as it
\* was stored when the request arrived, then the line of the current message
\* (once), then the cue for the answer.
C9_ContextIsHistoryThenMessage ==
    Called("build_prompt") /\ ~IsGreeting
        => /\ lines = <<SYSTEM_PROMPT, <<>>>>
                        \o [i \in 1..Len(session0) |-> TurnLine(session0[i])]
                        \o <<CurrentUserLine, <<"Assistant", ":">> >>
           /\ prompt_text = Join(lines, <<"\n">>)

\* C10: for a greeting, the context built for the model holds the system
\* instruction and the current message and no line of a turn stored before.
\* (The second form admits the current message a second time, which is what
\* C9 is about, so that only a stored turn in the context violates this.)
C10_GreetingIgnoresHistory ==
    Called("build_prompt") /\ IsGreeting
        => lines \in { <<SYSTEM_PROMPT, <<>>, CurrentUserLine, <<"Assistant", ":">> >>,
                       <<SYSTEM_PROMPT, <<>>, CurrentUserLine, CurrentUserLine, <<"Assistant", ":">> >> }


\* the worker is inside ensure_model_loaded
InEnsure(w) == worker[w] \in {"line77", "line79", "line80", "line82", "exit"}

\* C11: under every interleaving of the workers, the initialization (lines
\* 82-84) is executed by at most one worker, and by one once any caller has
\* returned; model_ready never goes back to False; every worker that calls
\* ensure_model_loaded returns from it; model_lock is held only by a worker
\* between its acquisition and the end of the with block, never by a worker
\* that is outside ensure_model_loaded or inside call_hf_inference.
C11_SingleInitialization ==
    /\ [](Len(loaded_by) <= 1)
    /\ [](\A w \in Workers :
             worker[w] = "call_hf_inference" => model_ready /\ Len(loaded_by) = 1)
    /\ [][model_ready => model_ready']_vars
    /\ \A w \in Workers : InEnsure(w) ~> (worker[w] = "call_hf_inference")
    /\ [](\A w \in Workers :
             /\ model_lock = w => worker[w] \in {"line80", "line82", "exit"}
             /\ worker[w] \in {"idle", "call_hf_inference"} => model_lock /= w)

\* C11 witness: two workers passed the first check before either initialized;
\* one has initialized and is inside call_hf_inference while the other holds
\* the lock at the second check
C11_Witness ==
    \E v, w \in Workers :
        /\ v /= w
        /\ loaded_by = <<v>>
        /\ worker[v] = "call_hf_inference"
        /\ worker[w] = "line80"
        /\ model_lock = w


\* the evaluation r ended with zero, as an int or as a float
IsZero(r) == r.st = "ok" /\ ~r.v.big /\ r.v.n = 0

\* some division in the tree has a divisor that evaluates to zero
RECURSIVE DividesByZero(_)
DividesByZero(node) ==
    IF node.t = "BinOp"
    THEN \/ node.op = "Div" /\ IsZero(_eval_node(node.right))
         \/ DividesByZero(node.left)
         \/ DividesByZero(node.right)
    ELSE IF node.t = "UnaryOp" THEN DividesByZero(node.operand)
    ELSE FALSE

\* the tree holds numbers and allowed operators only, so that no other
\* failure can come before the division
RECURSIVE OnlyAllowedNodes(_)
OnlyAllowedNodes(node) ==
    IF node.t = "BinOp"
    THEN node.op \in _ALLOWED_OPS /\ OnlyAllowedNodes(node.left) /\ OnlyAllowedNodes(node.right)
    ELSE IF node.t = "UnaryOp" THEN node.op \in _ALLOWED_OPS /\ OnlyAllowedNodes(node.operand)
    ELSE node.t = "Constant"

\* safe_eval_expr has been called on a text in which a '/' divisor evaluates to zero
ZeroDivisorEvaluated ==
    /\ pc \in {"evaluated", "model", "hf", "reply", "done"}
    /\ Called("safe_eval_expr")
    /\ ast_parse(expr).ok
    /\ DividesByZero(ast_parse(expr).node)

\* C12: whenever a '/' divisor of the evaluated text evaluates to zero (an int
\* or a float zero, written out or computed), safe_eval_expr raises and
\* returns no value; it raises ZeroDivisionError unless an operator that is
\* not allowed fails first; and a /chat request with such a text is not
\* answered by the guardrail but goes through call_hf_inference.
C12_DivisionByZeroFails ==
    ZeroDivisorEvaluated
        => /\ result.st \notin {"ok", "none"}
           /\ OnlyAllowedNodes(ast_parse(expr).node) => result.st = "ZeroDivisionError"
           /\ Called("extract_math_expression")
                 => /\ pc /= "guardrail"
                    /\ pc = "done" => Called("call_hf_inference")
                    /\ session = session0 \/ pc = "done"

\* C12 witness: "5 over (2 minus 2)" was evaluated as 5/(2-2), raised
\* ZeroDivisionError and was answered by the model path
C12_Witness ==
    /\ pc = "done"
    /\ user_text = MsgDivZeroDifference
    /\ expr = <<"5", "/", "(", "2", "-", "2", ")">>
    /\ ZeroDivisorEvaluated
    /\ result.st = "ZeroDivisionError"
    /\ Called("call_hf_inference")
    /\ response.ok


\* a number of standard arithmetic, or none (a division by zero)
Defined(n, d) == [def |-> TRUE, n |-> n, d |-> d]

Undefined == [def |-> FALSE, n |-> 0, d |-> 1]

\* the value of a well-formed expression in standard arithmetic
RECURSIVE StandardValue(_)
StandardBinary(op, a, b) ==
    IF ~a.def \/ ~b.def THEN Undefined
    ELSE CASE op = "+" -> Defined(a.n * b.d + b.n * a.d, a.d * b.d)
           [] op = "-" -> Defined(a.n * b.d - b.n * a.d, a.d * b.d)
           [] op = "*" -> Defined(a.n * b.n, a.d * b.d)
           [] op = "/" -> IF b.n = 0 THEN Undefined ELSE Defined(a.n * b.d, a.d * b.n)
           [] op = "^" -> Defined(IntPow(a.n, b.n \div b.d), IntPow(a.d, b.n \div b.d))

StandardUnary(op, a) == IF op = "-" /\ a.def THEN Defined(-a.n, a.d) ELSE a

StandardValue(x) ==
    CASE x.t = "Literal" -> Defined(x.n, 1)
      [] x.t = "Unary" -> StandardUnary(x.op, StandardValue(x.x))
      [] x.t = "Binary" -> StandardBinary(x.op, StandardValue(x.l), StandardValue(x.r))

\* safe_eval_expr returned the number w
Returned(w) == result.st = "ok" /\ ~result.v.big /\ result.v.n * w.d = w.n * result.v.d

\* C13 as stated: for every well-formed expression (numbers, parentheses,
\* signs, + - * / ^) whose value is defined, safe_eval_expr returns the value
\* of standard arithmetic with ^ as right-associative exponentiation above
\* * and / above + and -.  Violated by "2^1": ast.parse reads ^ as BitXor,
\* which is not in _ALLOWED_OPS, and _eval_node raises ValueError.
C13_StandardArithmetic ==
    pc = "evaluated" /\ given /= NoExpression /\ StandardValue(given).def
        => Returned(StandardValue(given))


IsLetter(c) == Contains(LowerCase, c) \/ Contains(UpperCase, c)

HasLetter(s) == \E i \in 1..Len(s) : IsLetter(s[i])

\* some parenthesis of s has no partner; open: the parentheses open so far
RECURSIVE UnmatchedParenthesis(_, _)
UnmatchedParenthesis(s, open) ==
    IF s = <<>> THEN open /= 0
    ELSE IF Head(s) = "(" THEN UnmatchedParenthesis(Tail(s), open + 1)
    ELSE IF Head(s) = ")" THEN open = 0 \/ UnmatchedParenthesis(Tail(s), open - 1)
    ELSE UnmatchedParenthesis(Tail(s), open)

\* two operator characters follow each other with nothing but spaces between
ConsecutiveOperators(s) ==
    \E i, j \in 1..Len(s) :
        /\ i < j
        /\ s[i] \in OperatorChars
        /\ s[j] \in OperatorChars
        /\ \A k \in (i + 1)..(j - 1) : s[k] = " "

\* an operator of Python (+ - * / ^ ** //) followed by one that is no sign
OperatorThenNoSign(toks) ==
    \E i \in 1..(Len(toks) - 1) :
        /\ IsOp(toks, i, {"+", "-", "*", "/", "^", "**", "//"})
        /\ IsOp(toks, i + 1, {"*", "/", "^", "**", "//"})

\* C14 as stated: safe_eval_expr fails for every text that contains a letter,
\* an unmatched parenthesis, or two consecutive operators with no operand
\* between them.  Violated by "1--1", which is 1 - (-1) = 2, and by "1**1".
C14_MalformedRejected ==
    pc = "evaluated"
    /\ (HasLetter(expr) \/ UnmatchedParenthesis(expr, 0) \/ ConsecutiveOperators(expr))
        => result.st /= "ok"

\* C14 amended: safe_eval_expr fails for every text that contains a letter,
\* an unmatched parenthesis, or an operator followed by an operator that is
\* no sign (+ or -), where ** and // are one operator each.
C14_MalformedRejectedButSigns ==
    pc = "evaluated"
    /\ (HasLetter(expr) \/ UnmatchedParenthesis(expr, 0) \/ OperatorThenNoSign(Tokenize(expr)))
        => result.st \notin {"ok", "none"}

\* C14 witness: "1+*2" was rejected with a SyntaxError
C14_Witness ==
    /\ pc = "evaluated"
    /\ expr = <<"1", "+", "*", "2">>
    /\ OperatorThenNoSign(Tokenize(expr))
    /\ result.st = "SyntaxError"


\* the phrase without its spaces
Squeezed(p) == SelectSeq(p, IsNotSpace)

\* the phrase the claim selects among ps[1..k]: the longest after space
\* removal, the later one among equally long ones
RECURSIVE SelectedPhrase(_, _)
SelectedPhrase(ps, k) ==
    IF k = 1 THEN Squeezed(ps[1])
    ELSE IF Len(Squeezed(ps[k])) >= Len(SelectedPhrase(ps, k - 1)) THEN Squeezed(ps[k])
    ELSE SelectedPhrase(ps, k - 1)

\* C15 as stated: for a sentence of several arithmetic phrases separated by
\* words, extract_math_expression returns exactly one of the phrases: the
\* longest after space removal, the later one among equally long ones.
\* Violated by "1+2 and 1+2": the words are deleted before the scan, the
\* phrases become one run and the result is "1+21+2".
C15_LongestPhraseSelected ==
    pc = "extracted" => expr = SelectedPhrase(given, Len(given))


\* the exchange carries the text of an upstream exception or error payload
CarriesErrorText(o) == o.k \in {"raise", "status"} \/ (o.k = "json" /\ o.shape = "error")

\* the same exchanges with every such text replaced by t
WithErrorText(ups, t) ==
    [i \in 1..Len(ups) |-> IF CarriesErrorText(ups[i]) THEN [ups[i] EXCEPT !.e = t] ELSE ups[i]]

\* what call_hf_inference returns when the upstream answers with the exchanges
\* ups, from attempt a on
RECURSIVE ReturnFor(_, _)
ReturnFor(ups, a) ==
    IF ups = <<>> THEN None
    ELSE IF LoopPass(Head(ups), a).op = "return" THEN LoopPass(Head(ups), a).ret
    ELSE ReturnFor(Tail(ups), a + 1)

\* other texts an upstream exception or error payload may carry
OtherErrorTexts == {<<"Connection refused by 10.0.0.7">>, <<"quota exceeded for token hf_abc">>}

\* C16 as stated: the reply for a failed model call is the same for any two
\* requests that differ only in the text carried by the upstream exception or
\* error payload.  Violated by the body {"error": "model overloaded"}: the
\* reply is "(LLM) Model error: model overloaded", with the payload's text.
C16_ReplyIndependentOfErrorText ==
    pc = "done" /\ upstream /= <<>> /\ ~hf_return.none /\ ~hf_return.ok
        => \A t \in OtherErrorTexts :
               ReplyText(ReturnFor(WithErrorText(upstream, t), 0)) = response.reply

\* the payloads of the token frames, in order, up to the terminal marker
RECURSIVE TokenPayloads(_)
TokenPayloads(fs) ==
    IF fs = <<>> \/ Head(fs).kind = "done" THEN <<>>
    ELSE IF Head(fs).kind = "token" THEN Head(fs).payload \o TokenPayloads(Tail(fs))
    ELSE TokenPayloads(Tail(fs))

\* the terminal marker has been written and the request is over
StreamCompleted ==
    /\ stream.phase = "closed"
    /\ \E i \in 1..Len(stream.frames) : stream.frames[i].kind = "done"

\* C17: when a streaming request is over and its terminal marker was written,
\* the last stored turn is the bot turn whose text is the concatenation, in
\* order, of the payloads of the token frames written before the marker.
C17_StreamedReplyIsConcatenation ==
    StreamCompleted =>
        /\ session /= <<>>
        /\ session[Len(session)] = Turn("bot", TokenPayloads(stream.frames))

\* a stream of three events, one of them empty, two forwarded as different
\* tokens, has been committed
C17_Witness ==
    /\ StreamCompleted
    /\ stream.events = 3
    /\ Len(stream.frames) = 3
    /\ stream.frames[1] /= stream.frames[2]

\* the request that has just ended did not complete successfully: it was
\* answered with EmptyInput (400) or with the internal error (500), or its
\* model call failed (ok = False) or exhausted its retries
EndedWithoutSuccess ==
    /\ pc = "done"
    /\ \/ response.status \in {400, 500}
       \/ Called("call_hf_inference") /\ ~hf_return.ok

\* C18 as stated: a request that ends in EmptyInput, in a failed model call or
\* in the internal-error response leaves the stored history as it was when the
\* request arrived.  Violated by a model call that returns ok = False: lines
\* 308-311 store the user turn and the "(LLM) ..." turn.
C18_FailureLeavesHistory ==
    EndedWithoutSuccess => session = session0

\* user and bot turns strictly alternate in l
Alternates(l) == \A i \in 1..(Len(l) - 1) : l[i].role /= l[i + 1].role

EndsWithBot(l) == l = <<>> \/ l[Len(l)].role = "bot"

\* C19: after every /chat request, whatever its outcome, the stored history is
\* empty or ends with a bot turn, and no two adjacent stored turns have the
\* same role.
C19_HistoryAlternates ==
    pc = "done" => EndsWithBot(session) /\ Alternates(session)

\* a request has ended with eleven turns stored, the first of them a bot turn
\* (the model path truncated to ten before it appended the reply)
C19_Witness ==
    /\ pc = "done"
    /\ Len(session) = 11
    /\ session[1].role = "bot"

=============================================================================
